---- MODULE Spec2Model ----
(***************************************************************************)
(* A model of the qb-api client (src/src/api.rs, traits.rs, queries.rs).   *)
(*                                                                         *)
(* Text (a Rust String / &str / header value / body) is a tuple of         *)
(* one-character strings, so that find, slicing and join act on            *)
(* characters.  Endpoint paths, form keys and header names are fixed       *)
(* literals of the code and are kept as TLA+ strings.  An Option is a      *)
(* tuple of length 0 (None) or 1 (Some).                                   *)
(***************************************************************************)
EXTENDS Integers, Sequences, FiniteSets, TLC

VARIABLES api, call, calls

vars == <<api, call, calls>>

----------------------------------------------------------------------------
(* Bounds of the explored inputs *)

\* longest list of identifiers handed to a batch operation
MaxHashes == 2
\* longest list of tags handed to add_tag
MaxTags == 2
\* most Set-Cookie headers in a login response
MaxSetCookie == 2

SeqsUpTo(S, n) == UNION {[1..k -> S] : k \in 0..n}

----------------------------------------------------------------------------
(* Text helpers: the std operations the code calls *)

\* str::find(";"): the 0-based index of the first occurrence, None when absent
Find(s, ch) ==
    IF \E i \in 1..Len(s) : s[i] = ch
    THEN <<(CHOOSE i \in 1..Len(s) : s[i] = ch /\ \A j \in 1..(i-1) : s[j] # ch) - 1>>
    ELSE <<>>

\* str::get(0..end): the first `end` characters, None when out of range
Get0(s, end) == IF end <= Len(s) THEN <<SubSeq(s, 1, end)>> ELSE <<>>

RECURSIVE JoinRest(_, _)
JoinRest(strs, sep) ==
    IF strs = <<>> THEN <<>>
    ELSE sep \o Head(strs) \o JoinRest(Tail(strs), sep)

\* a join that writes the separator after every item, the last included
JoinTrailing(strs, sep) ==
    IF strs = <<>> THEN <<>>
    ELSE Head(strs) \o JoinRest(Tail(strs), sep) \o sep

\* [&str]::join(sep): the items in order with sep between neighbours
Join(strs, sep) ==
    IF strs = <<>> THEN <<>>
    ELSE Head(strs) \o JoinRest(Tail(strs), sep)

\* characters a header value may not be read as text with (HeaderValue::to_str)
NonVisibleAscii == {"0x80"}

\* HeaderValue::to_str: Err(ToStrError) on any byte outside visible ASCII
ToStr(v) ==
    IF \E i \in 1..Len(v) : v[i] \in NonVisibleAscii
    THEN [ok |-> FALSE, err |-> "ToStrError"]
    ELSE [ok |-> TRUE, val |-> v]

----------------------------------------------------------------------------
(* Url: origin (scheme://host:port), path, optional query and fragment *)

\* Url::set_path on an http(s) url: the empty path is serialized as "/"
SetPath(u, p) == [u EXCEPT !.path = IF p = "" THEN "/" ELSE p]
SetQueryNone(u) == [u EXCEPT !.query = <<>>]
SetFragmentNone(u) == [u EXCEPT !.fragment = <<>>]

\* Url::as_str: the serialization, piece by piece
UrlAsStr(u) ==
    <<u.origin, u.path>>
      \o (IF u.query = <<>> THEN <<>> ELSE <<"?">> \o u.query)
      \o (IF u.fragment = <<>> THEN <<>> ELSE <<"#">> \o u.fragment)

\* Api::new, lines 26-29: the base url with fragment, query and path removed
NormalizeUrl(u) == SetPath(SetQueryNone(SetFragmentNone(u)), "")

----------------------------------------------------------------------------
(* Requests as reqwest's builder assembles them *)

ClientGet(url) == [method |-> "GET", url |-> url, headers |-> {}, form |-> <<>>]
ClientPost(url) == [method |-> "POST", url |-> url, headers |-> {}, form |-> <<>>]

\* RequestBuilder::headers: the given headers replace same-named ones
WithHeaders(r, hs) ==
    [r EXCEPT !.headers =
        {h \in r.headers : \A g \in hs : g[1] # h[1]} \cup hs]

\* RequestBuilder::form: a urlencoded body of the key/value pairs
WithForm(r, f) ==
    [r EXCEPT !.form = <<f>>,
              !.headers = {h \in r.headers : h[1] # "content-type"}
                  \cup {<<"content-type", <<"application/x-www-form-urlencoded">>>>}]

----------------------------------------------------------------------------
(* Inputs *)

SID == <<"S", "I", "D">>
sid_abc123 == <<"S", "I", "D", "=", "a", "b", "c", "1", "2", "3">>
lang_en == <<"l", "a", "n", "g", "=", "e", "n">>
attr_path == <<";", " ", "P", "a", "t", "h", "=", "/">>
attr_httponly == <<";", " ", "H", "t", "t", "p", "O", "n", "l", "y">>

\* values of Set-Cookie headers a service may answer the login with
SetCookieValues ==
    { sid_abc123 \o attr_path,
      sid_abc123 \o attr_path \o attr_httponly,
      sid_abc123,
      lang_en \o attr_path,
      <<"S", "I", "D", "=", "0x80">> \o attr_path }

Statuses == {200, 204, 304, 404, 500}

\* "{..}" stands for one well-formed JSON object of the type the caller decodes
Bodies ==
    { <<>>, <<"1">>, <<"0">>, <<"2">>, <<"t", "r", "u", "e">>,
      <<"1", "\n">>, <<"0", "1">>, <<"[", "]">>, <<"{", "}">>,
      <<"{..}">>, <<"[", "{..}", "]">> }

\* what the service answers: the login with Set-Cookie headers, the rest with
\* a status and a body
LoginResponses ==
    [status : {200, 403}, setCookie : SeqsUpTo(SetCookieValues, MaxSetCookie), body : {<<>>}]
OpResponses ==
    [status : Statuses, setCookie : {<<>>}, body : Bodies]

BaseUrls ==
    { [origin |-> "http://qb:8080", path |-> "/", query |-> <<>>, fragment |-> <<>>],
      [origin |-> "http://qb:8080", path |-> "/ui/index.html",
       query |-> <<"v=1">>, fragment |-> <<"top">>],
      [origin |-> "https://seedbox", path |-> "/", query |-> <<>>, fragment |-> <<>>] }

Credentials == { <<>>, << <<"a", "d", "m", "i", "n">> >> }

----------------------------------------------------------------------------
(* Results *)

Ok(v) == [ok |-> TRUE, val |-> v]
Err(e) == [ok |-> FALSE, err |-> e]
\* a reqwest::Error converted into the crate's Error: a transport failure carries
\* no status, an error_for_status failure carries the response's status
ErrReqwest(status) == [ok |-> FALSE, err |-> "Reqwest", status |-> status]
Unit == "()"

----------------------------------------------------------------------------
(* Api::new *)

\* lines 31-41: the login request
LoginRequest(url, username, password) ==
    LET base == NormalizeUrl(url)
        headers == {<<"referer", UrlAsStr(base)>>}
        form == {<<"username", u>> : u \in {username[i] : i \in 1..Len(username)}}
                  \cup {<<"password", p>> : p \in {password[i] : i \in 1..Len(password)}}
    IN  WithForm(WithHeaders(ClientPost(SetPath(base, "/api/v2/auth/login")), headers), form)

\* line 44: HeaderMap::get gives the first value stored under the name
FirstSetCookie(resp) ==
    IF resp.setCookie = <<>> THEN <<>> ELSE <<Head(resp.setCookie)>>

\* a constructor that goes on without a cookie when the login sets none
NewResult_Lenient(url, resp) ==
    LET header == FirstSetCookie(resp) IN
    IF header = <<>> THEN Ok([cookie |-> <<>>, url |-> NormalizeUrl(url)])
    ELSE LET cookie_str == ToStr(header[1]) IN
         IF ~cookie_str.ok THEN Err("ToStrError")
         ELSE LET cookie_header == Find(cookie_str.val, ";") IN
              IF cookie_header = <<>> THEN Err("MissingCookie")
              ELSE LET cookie == Get0(cookie_str.val, cookie_header[1]) IN
                   IF cookie = <<>> THEN Err("SliceError")
                   ELSE Ok([cookie |-> cookie[1], url |-> NormalizeUrl(url)])

\* lines 44-65: the session read off the login response
NewResult(url, resp) ==
    LET header == FirstSetCookie(resp) IN
    IF header = <<>> THEN Err("MissingHeaders")
    ELSE LET cookie_str == ToStr(header[1]) IN
         IF ~cookie_str.ok THEN Err("ToStrError")
         ELSE LET cookie_header == Find(cookie_str.val, ";") IN
              IF cookie_header = <<>> THEN Err("MissingCookie")
              ELSE LET cookie == Get0(cookie_str.val, cookie_header[1]) IN
                   IF cookie = <<>> THEN Err("SliceError")
                   ELSE Ok([cookie |-> cookie[1], url |-> NormalizeUrl(url)])

Idle == [pc |-> "idle"]

Awaiting(op, args, req, then) ==
    [pc |-> "awaiting", op |-> op, args |-> args, sent |-> <<req>>, then |-> then]

\* Api::new up to `request.send().await`
New ==
    /\ call.pc = "idle"
    /\ api = <<>>
    /\ \E url \in BaseUrls, username \in Credentials, password \in Credentials :
         call' = Awaiting("new", [url |-> url, username |-> username, password |-> password],
                          LoginRequest(url, username, password), "new")
    /\ UNCHANGED <<api, calls>>

----------------------------------------------------------------------------
(* The session's own helpers *)

\* Api::endpoint: a copy of the base url with the path set
Endpoint(a, path) == SetPath(a.url, path)

\* Api::headers: the authentication headers.  Both values parse as header
\* values: the cookie was read with to_str and a serialized url is ASCII
Headers(a) == {<<"cookie", a.cookie>>, <<"referer", UrlAsStr(a.url)>>}

\* Api::hashes_form_data: {"hashes": h1|h2|...}
HashesFormData(hashes) ==
    LET hash_strs == [i \in 1..Len(hashes) |-> hashes[i]]
    IN  {<<"hashes", Join(hash_strs, <<"|">>)>>}

\* what a handler does up to its `request.send().await`: the request it sends
\* and the code that runs on the response
Handler(req, then) == [req |-> req, then |-> then]

----------------------------------------------------------------------------
(* Arguments callers pass *)

aaa == <<"a", "a", "a">>
bbb == <<"b", "b", "b">>
\* Hash: a torrent identifier
Hashes == {aaa, bbb}
\* Torrent: of a torrent record only the hash reaches a request
Torrents == [hash : Hashes]
HashLists == SeqsUpTo(Hashes, MaxHashes)

TagNames == {<<"x">>, <<"h", "d">>}
TagLists == SeqsUpTo(TagNames, MaxTags)
CategoryNames == {<<"t", "v">>}
SavePaths == {<<"/", "d">>}

DigitChars == <<"0", "1", "2", "3", "4", "5", "6", "7", "8", "9">>

RECURSIVE NatToString(_)
NatToString(n) ==
    IF n < 10 THEN <<DigitChars[n + 1]>>
    ELSE NatToString(n \div 10) \o <<DigitChars[(n % 10) + 1]>>

\* u64::to_string / i64::to_string: decimal digits, '-' before a negative
IntToString(n) == IF n < 0 THEN <<"-">> \o NatToString(0 - n) ELSE NatToString(n)

\* LogRequest::bool_to_string
BoolToString(b) ==
    IF b THEN <<"t", "r", "u", "e">> ELSE <<"f", "a", "l", "s", "e">>

\* LogRequest
LogRequests ==
    [normal : BOOLEAN, info : BOOLEAN, warning : BOOLEAN, critical : BOOLEAN,
     last_known_id : {0, 12}]

\* a to_form_data that writes only the flags that are set
ToFormData_OnlySet(r) ==
    (IF r.normal THEN {<<"normal", BoolToString(TRUE)>>} ELSE {})
      \cup (IF r.info THEN {<<"info", BoolToString(TRUE)>>} ELSE {})
      \cup (IF r.warning THEN {<<"warning", BoolToString(TRUE)>>} ELSE {})
      \cup (IF r.critical THEN {<<"critical", BoolToString(TRUE)>>} ELSE {})
      \cup {<<"last_known_id", IntToString(r.last_known_id)>>}

\* LogRequest::to_form_data
ToFormData(r) ==
    { <<"normal", BoolToString(r.normal)>>,
      <<"info", BoolToString(r.info)>>,
      <<"warning", BoolToString(r.warning)>>,
      <<"critical", BoolToString(r.critical)>>,
      <<"last_known_id", IntToString(r.last_known_id)>> }

\* TorrentDownload: urls, category, upload_limit and automatic_management stand
\* for the fourteen optional fields, all serialized the same way
TorrentDownloads ==
    [urls : {<<>>, << <<"m", "a", "g">> >>},
     category : {<<>>, << <<"t", "v">> >>},
     upload_limit : {<<>>, <<-1>>},
     automatic_management : {<<>>, <<TRUE>>}]

\* #[derive(Serialize)] on TorrentDownload through RequestBuilder::form: a field
\* that is None gives no pair, a field that is Some gives its (renamed) key
TorrentDownloadForm(d) ==
    {<<"urls", v>> : v \in {d.urls[i] : i \in 1..Len(d.urls)}}
      \cup {<<"category", v>> : v \in {d.category[i] : i \in 1..Len(d.category)}}
      \cup {<<"upLimit", IntToString(v)>> :
              v \in {d.upload_limit[i] : i \in 1..Len(d.upload_limit)}}
      \cup {<<"autoTMM", BoolToString(v)>> :
              v \in {d.automatic_management[i] : i \in 1..Len(d.automatic_management)}}

----------------------------------------------------------------------------
(* impl Api (api.rs): each method up to its `request.send().await` *)

application_version(a) ==
    Handler(ClientGet(Endpoint(a, "/api/v2/app/version")), "text")

api_version(a) ==
    Handler(ClientGet(Endpoint(a, "/api/v2/app/webapiVersion")), "text")

build_info(a) ==
    Handler(ClientGet(Endpoint(a, "/api/v2/app/buildInfo")), "json_struct")

shutdown(a) ==
    Handler(ClientGet(Endpoint(a, "/api/v2/app/shutdown")), "unit")

default_save_path(a) ==
    Handler(ClientGet(Endpoint(a, "/api/v2/app/defaultSavePath")), "text")

get_log(a, log_request) ==
    Handler(WithForm(ClientPost(Endpoint(a, "/api/v2/log/main")),
                     ToFormData(log_request)),
            "json_vec")

get_global_transfer_info(a) ==
    Handler(WithHeaders(ClientGet(Endpoint(a, "/api/v2/transfer/info")), Headers(a)),
            "json_struct")

get_alternate_speed_limits_state(a) ==
    Handler(WithHeaders(ClientGet(Endpoint(a, "/api/v2/transfer/speedLimitsMode")),
                        Headers(a)),
            "alternate_limits")

toggle_alternative_speed_limits(a) ==
    Handler(ClientGet(Endpoint(a, "/api/v2/transfer/toggleSpeedLimitsMode")),
            "error_for_status")

\* a get_torrent_list that leaves the session headers out, as get_log does
get_torrent_list_NoHeaders(a) ==
    Handler(ClientGet(Endpoint(a, "/api/v2/torrents/info")), "json_vec")

get_torrent_list(a) ==
    Handler(WithHeaders(ClientGet(Endpoint(a, "/api/v2/torrents/info")), Headers(a)),
            "json_vec")

add_new_torrent(a, data) ==
    Handler(WithHeaders(WithForm(ClientPost(Endpoint(a, "/api/v2/torrents/add")),
                                 TorrentDownloadForm(data)),
                        Headers(a)),
            "error_for_status")

get_all_categories(a) ==
    Handler(WithHeaders(ClientGet(Endpoint(a, "/api/v2/torrents/categories")),
                        Headers(a)),
            "json_map")

add_category(a, name, path) ==
    LET form == {<<"category", name>>, <<"savePath", path>>}
    IN  Handler(WithForm(WithHeaders(ClientPost(Endpoint(a, "/api/v2/torrents/createCategory")),
                                     Headers(a)),
                         form),
                "bytes_unit")

bottom_prio(a, hashes) ==
    Handler(WithForm(WithHeaders(ClientPost(Endpoint(a, "/api/v2/torrents/bottomPrio")),
                                 Headers(a)),
                     HashesFormData(hashes)),
            "bytes_unit")

top_prio(a, hashes) ==
    Handler(WithForm(WithHeaders(ClientPost(Endpoint(a, "/api/v2/torrents/topPrio")),
                                 Headers(a)),
                     HashesFormData(hashes)),
            "bytes_unit")

----------------------------------------------------------------------------
(* traits.rs: each impl up to its `request.send().await` *)

\* impl Category<Api> for Torrent: the form is built and never attached
Torrent_set_category(self, a, category) ==
    LET form == {<<"hashes", self.hash>>, <<"category", category>>}
    IN  Handler(WithHeaders(ClientPost(Endpoint(a, "/api/v2/torrents/setCategory")),
                            Headers(a)),
                "bytes_unit")

\* impl TorrentData<Api> for Hash
Hash_properties(self, a) ==
    LET form == {<<"hash", self>>}
    IN  Handler(WithForm(WithHeaders(ClientPost(Endpoint(a, "/api/v2/torrents/properties")),
                                     Headers(a)),
                         form),
                "json_struct")

Hash_trackers(self, a) ==
    LET form == {<<"hash", self>>}
    IN  Handler(WithForm(WithHeaders(ClientPost(Endpoint(a, "/api/v2/torrents/trackers")),
                                     Headers(a)),
                         form),
                "json_vec")

Hash_contents(self, a) ==
    LET form == {<<"hash", self>>}
    IN  Handler(WithForm(WithHeaders(ClientPost(Endpoint(a, "/api/v2/torrents/files")),
                                     Headers(a)),
                         form),
                "json_vec")

\* impl TorrentData<Api> for Torrent
Torrent_properties(self, a) == Hash_properties(self.hash, a)
Torrent_trackers(self, a) == Hash_trackers(self.hash, a)
Torrent_contents(self, a) == Hash_contents(self.hash, a)

\* an Api::contents that sends the record's identifier as a batch operation would
Api_contents_Hashes(a, torrent) ==
    LET form == {<<"hashes", torrent.hash>>}
    IN  Handler(WithForm(WithHeaders(ClientPost(Endpoint(a, "/api/v2/torrents/files")),
                                     Headers(a)),
                         form),
                "json_vec")

\* impl TorrentData<Torrent> for Api
Api_properties(a, torrent) == Hash_properties(torrent.hash, a)
Api_trackers(a, torrent) == Hash_trackers(torrent.hash, a)
Api_contents(a, torrent) == Hash_contents(torrent.hash, a)

\* impl Resume<Api> for Hash
Hash_resume(self, a) ==
    LET form == {<<"hashes", self>>}
    IN  Handler(WithForm(WithHeaders(ClientPost(Endpoint(a, "/api/v2/torrents/resume")),
                                     Headers(a)),
                         form),
                "error_for_status")

\* impl Resume<Api> for Torrent
Torrent_resume(self, a) == Hash_resume(self.hash, a)

\* impl Resume<Api> for Vec<Hash>
VecHash_resume(self, a) ==
    LET form == HashesFormData(self)
    IN  Handler(WithForm(WithHeaders(ClientPost(Endpoint(a, "/api/v2/torrents/resume")),
                                     Headers(a)),
                         form),
                "error_for_status")

\* impl Pause<Api> for Hash
Hash_pause(self, a) ==
    LET form == {<<"hash", self>>}
    IN  Handler(WithForm(WithHeaders(ClientPost(Endpoint(a, "/api/v2/torrents/pause")),
                                     Headers(a)),
                         form),
                "error_for_status")

\* impl Pause<Api> for Torrent
Torrent_pause(self, a) == Hash_pause(self.hash, a)

\* impl Pause<Api> for Vec<Hash>
VecHash_pause(self, a) ==
    LET form == HashesFormData(self)
    IN  Handler(WithForm(WithHeaders(ClientPost(Endpoint(a, "/api/v2/torrents/pause")),
                                     Headers(a)),
                         form),
                "error_for_status")

\* an add_tag that joins the tags with the identifiers' delimiter
Hash_add_tag_Pipe(self, a, tags) ==
    LET form == {<<"hashes", self>>, <<"tags", Join(tags, <<"|">>)>>}
    IN  Handler(WithForm(WithHeaders(ClientPost(Endpoint(a, "/api/v2/torrents/addTags")),
                                     Headers(a)),
                         form),
                "error_for_status")

\* impl Tags<Api> for Hash
Hash_add_tag(self, a, tags) ==
    LET form == {<<"hashes", self>>, <<"tags", Join(tags, <<",">>)>>}
    IN  Handler(WithForm(WithHeaders(ClientPost(Endpoint(a, "/api/v2/torrents/addTags")),
                                     Headers(a)),
                         form),
                "error_for_status")

\* impl Tags<Api> for Torrent
Torrent_add_tag(self, a, tags) == Hash_add_tag(self.hash, a, tags)

\* impl Recheck<Api> for Hash
Hash_recheck(self, a) ==
    LET form == {<<"hashes", self>>}
    IN  Handler(WithForm(WithHeaders(ClientPost(Endpoint(a, "/api/v2/torrents/recheck")),
                                     Headers(a)),
                         form),
                "unit")

\* impl Recheck<Api> for Torrent
Torrent_recheck(self, a) == Hash_recheck(self.hash, a)

----------------------------------------------------------------------------
(* queries.rs *)

Quote == "\""

\* serde_json::to_string of a TorrentFilter: the renamed variant as a JSON string
FilterToJson(filter) ==
    CASE filter = "All" -> <<Quote, "a", "l", "l", Quote>>
      [] filter = "Paused" -> <<Quote, "p", "a", "u", "s", "e", "d", Quote>>

\* serde_json::to_string of a bool: the bare JSON literal
BoolToJson(b) == IF b THEN <<"t", "r", "u", "e">> ELSE <<"f", "a", "l", "s", "e">>

AllTorrentRequests ==
    [filter : {<<>>, <<"All">>, <<"Paused">>},
     category : {<<>>, << <<"t", "v">> >>, << <<>> >>},
     tag : {<<>>, << <<"x">> >>},
     sort : {<<>>, << <<"n", "a", "m", "e">> >>},
     reverse : {<<>>, <<TRUE>>, <<FALSE>>},
     limit : {<<>>, <<10>>},
     offset : {<<>>, <<-5>>},
     hashes : HashLists]

FieldCount(r) ==
    Len(r.filter) + Len(r.category) + Len(r.tag) + Len(r.sort) + Len(r.reverse)
      + Len(r.limit) + Len(r.offset) + (IF r.hashes = <<>> THEN 0 ELSE 1)

\* TorrentRequest: requests with no field, one field or every field set
TorrentRequests == {r \in AllTorrentRequests : FieldCount(r) <= 1 \/ FieldCount(r) = 8}

\* TorrentRequest::send
TorrentRequest_send(self, a) ==
    LET form ==
          (IF self.filter # <<>> THEN {<<"filter", FilterToJson(self.filter[1])>>} ELSE {})
            \cup (IF self.category # <<>> THEN {<<"category", self.category[1]>>} ELSE {})
            \cup (IF self.tag # <<>> THEN {<<"tag", self.tag[1]>>} ELSE {})
            \cup (IF self.sort # <<>> THEN {<<"sort", self.sort[1]>>} ELSE {})
            \cup (IF self.reverse # <<>>
                  THEN {<<"reverse", BoolToJson(self.reverse[1])>>} ELSE {})
            \cup (IF self.limit # <<>> THEN {<<"limit", IntToString(self.limit[1])>>} ELSE {})
            \cup (IF self.offset # <<>>
                  THEN {<<"offset", IntToString(self.offset[1])>>} ELSE {})
            \cup (IF self.hashes # <<>>
                  THEN LET refs == [i \in 1..Len(self.hashes) |-> self.hashes[i]]
                       IN  {<<"hashes", Join(refs, <<"|">>)>>}
                  ELSE {})
    IN  Handler(WithForm(WithHeaders(ClientPost(Endpoint(a, "/api/v2/torrents/info")),
                                     Headers(a)),
                         form),
                "json_vec")

\* TorrentDownload::download
TorrentDownload_download(self, a) == add_new_torrent(a, self)

----------------------------------------------------------------------------
(* What each handler does with the response *)

\* an error_for_status that takes only 5xx for an error
ErrorForStatus_ServerOnly(resp) ==
    IF resp.status >= 500 /\ resp.status <= 599
    THEN [ok |-> FALSE, err |-> "Reqwest", status |-> <<resp.status>>]
    ELSE [ok |-> TRUE, val |-> "()"]

\* Response::error_for_status: an error for a 4xx or 5xx status
ErrorForStatus(resp) ==
    IF resp.status >= 400 /\ resp.status <= 599
    THEN ErrReqwest(<<resp.status>>)
    ELSE Ok(Unit)

\* a decode that looks at the first byte only
DecodeAlternateLimits_FirstByte(data) ==
    IF data # <<>> /\ data[1] = "1" THEN [ok |-> TRUE, val |-> "Enabled"]
    ELSE IF data # <<>> /\ data[1] = "0" THEN [ok |-> TRUE, val |-> "Disabled"]
    ELSE [ok |-> FALSE, err |-> "BadResponse"]

\* get_alternate_speed_limits_state, lines 156-163
DecodeAlternateLimits(data) ==
    IF data = <<"1">> THEN Ok("Enabled")
    ELSE IF data = <<"0">> THEN Ok("Disabled")
    ELSE Err("BadResponse")

\* serde_json::from_slice into a Vec
FromSliceVec(data) ==
    IF data = <<"[", "]">> THEN Ok(<<>>)
    ELSE IF data = <<"[", "{..}", "]">> THEN Ok(<<"{..}">>)
    ELSE Err("Json")

\* serde_json::from_slice into a struct with required fields
FromSliceStruct(data) ==
    IF data = <<"{..}">> THEN Ok("{..}") ELSE Err("Json")

\* serde_json::from_slice into a HashMap
FromSliceMap(data) ==
    IF data = <<"{", "}">> THEN Ok({}) ELSE Err("Json")

\* the rest of a handler once `request.send().await` gave a response
Continue(c, resp) ==
    CASE c.then = "new" -> NewResult(c.args.url, resp)
      [] c.then = "text" -> Ok(resp.body)
      [] c.then = "unit" -> Ok(Unit)
      [] c.then = "bytes_unit" -> Ok(Unit)
      [] c.then = "error_for_status" -> ErrorForStatus(resp)
      [] c.then = "alternate_limits" -> DecodeAlternateLimits(resp.body)
      [] c.then = "json_vec" -> FromSliceVec(resp.body)
      [] c.then = "json_struct" -> FromSliceStruct(resp.body)
      [] c.then = "json_map" -> FromSliceMap(resp.body)

\* a handler that sends its request once more when the first attempt failed
Returned_Retry(c, resp, result) ==
    [pc |-> "returned", op |-> c.op, args |-> c.args,
     sent |-> IF result.ok THEN c.sent ELSE c.sent \o c.sent,
     resp |-> resp, result |-> result]

\* the handler returns to its caller: nothing more is sent
Returned(c, resp, result) ==
    [pc |-> "returned", op |-> c.op, args |-> c.args, sent |-> c.sent,
     resp |-> resp, result |-> result]

\* the exchange fails in transport, at `request.send().await?` or while the body
\* is read (`response.bytes().await?`, `response.text().await?`): the reqwest
\* error is returned and no response is left to decode
TransportError ==
    /\ call.pc = "awaiting"
    /\ call' = Returned(call, <<>>, ErrReqwest(<<>>))
    /\ UNCHANGED <<api, calls>>

\* Api::new from the login response on: the caller holds a session only on Ok
NewReturns ==
    /\ call.pc = "awaiting"
    /\ call.op = "new"
    /\ \E resp \in LoginResponses :
         LET result == Continue(call, resp) IN
         /\ call' = Returned(call, <<resp>>, result)
         /\ api' = IF result.ok THEN <<result.val>> ELSE api
    /\ UNCHANGED calls

\* any other handler from its response on
Respond ==
    /\ call.pc = "awaiting"
    /\ call.op # "new"
    /\ \E resp \in OpResponses :
         call' = Returned(call, <<resp>>, Continue(call, resp))
    /\ UNCHANGED <<api, calls>>

\* the caller is done with the result
Forget ==
    /\ call.pc = "returned"
    /\ call' = Idle
    /\ UNCHANGED <<api, calls>>

\* the caller drops the session
Drop ==
    /\ call.pc = "idle"
    /\ api # <<>>
    /\ api' = <<>>
    /\ UNCHANGED <<call, calls>>

----------------------------------------------------------------------------
(* The caller invokes an operation on the session it holds *)

Ready == call.pc = "idle" /\ api # <<>>

\* an invocation whose endpoint() sets the path on the stored url, not on a copy
Invoke_EndpointInPlace(op, args, h) ==
    /\ call' = Awaiting(op, args, h.req, h.then)
    /\ api' = <<[api[1] EXCEPT !.url = h.req.url]>>
    /\ UNCHANGED calls

Invoke(op, args, h) ==
    /\ call' = Awaiting(op, args, h.req, h.then)
    /\ UNCHANGED <<api, calls>>

NoArgs == [none |-> TRUE]

Call_application_version ==
    Ready /\ Invoke("application_version", NoArgs, application_version(api[1]))
Call_api_version ==
    Ready /\ Invoke("api_version", NoArgs, api_version(api[1]))
Call_build_info ==
    Ready /\ Invoke("build_info", NoArgs, build_info(api[1]))
Call_shutdown ==
    Ready /\ Invoke("shutdown", NoArgs, shutdown(api[1]))
Call_default_save_path ==
    Ready /\ Invoke("default_save_path", NoArgs, default_save_path(api[1]))
Call_get_log ==
    Ready /\ \E r \in LogRequests :
        Invoke("get_log", [log_request |-> r], get_log(api[1], r))
Call_get_global_transfer_info ==
    Ready /\ Invoke("get_global_transfer_info", NoArgs, get_global_transfer_info(api[1]))
Call_get_alternate_speed_limits_state ==
    Ready /\ Invoke("get_alternate_speed_limits_state", NoArgs,
                    get_alternate_speed_limits_state(api[1]))
Call_toggle_alternative_speed_limits ==
    Ready /\ Invoke("toggle_alternative_speed_limits", NoArgs,
                    toggle_alternative_speed_limits(api[1]))
Call_get_torrent_list ==
    Ready /\ Invoke("get_torrent_list", NoArgs, get_torrent_list(api[1]))
Call_add_new_torrent ==
    Ready /\ \E d \in TorrentDownloads :
        Invoke("add_new_torrent", [data |-> d], add_new_torrent(api[1], d))
Call_get_all_categories ==
    Ready /\ Invoke("get_all_categories", NoArgs, get_all_categories(api[1]))
Call_add_category ==
    Ready /\ \E name \in CategoryNames, path \in SavePaths :
        Invoke("add_category", [name |-> name, path |-> path],
               add_category(api[1], name, path))
Call_bottom_prio ==
    Ready /\ \E hs \in HashLists :
        Invoke("bottom_prio", [hashes |-> hs], bottom_prio(api[1], hs))
Call_top_prio ==
    Ready /\ \E hs \in HashLists :
        Invoke("top_prio", [hashes |-> hs], top_prio(api[1], hs))

Call_Torrent_set_category ==
    Ready /\ \E t \in Torrents, c \in CategoryNames :
        Invoke("Torrent_set_category", [self |-> t, category |-> c],
               Torrent_set_category(t, api[1], c))
Call_Hash_properties ==
    Ready /\ \E h \in Hashes :
        Invoke("Hash_properties", [self |-> h], Hash_properties(h, api[1]))
Call_Hash_trackers ==
    Ready /\ \E h \in Hashes :
        Invoke("Hash_trackers", [self |-> h], Hash_trackers(h, api[1]))
Call_Hash_contents ==
    Ready /\ \E h \in Hashes :
        Invoke("Hash_contents", [self |-> h], Hash_contents(h, api[1]))
Call_Torrent_properties ==
    Ready /\ \E t \in Torrents :
        Invoke("Torrent_properties", [self |-> t], Torrent_properties(t, api[1]))
Call_Torrent_trackers ==
    Ready /\ \E t \in Torrents :
        Invoke("Torrent_trackers", [self |-> t], Torrent_trackers(t, api[1]))
Call_Torrent_contents ==
    Ready /\ \E t \in Torrents :
        Invoke("Torrent_contents", [self |-> t], Torrent_contents(t, api[1]))
Call_Api_properties ==
    Ready /\ \E t \in Torrents :
        Invoke("Api_properties", [torrent |-> t], Api_properties(api[1], t))
Call_Api_trackers ==
    Ready /\ \E t \in Torrents :
        Invoke("Api_trackers", [torrent |-> t], Api_trackers(api[1], t))
Call_Api_contents ==
    Ready /\ \E t \in Torrents :
        Invoke("Api_contents", [torrent |-> t], Api_contents(api[1], t))
Call_Hash_resume ==
    Ready /\ \E h \in Hashes :
        Invoke("Hash_resume", [self |-> h], Hash_resume(h, api[1]))
Call_Torrent_resume ==
    Ready /\ \E t \in Torrents :
        Invoke("Torrent_resume", [self |-> t], Torrent_resume(t, api[1]))
Call_VecHash_resume ==
    Ready /\ \E hs \in HashLists :
        Invoke("VecHash_resume", [self |-> hs], VecHash_resume(hs, api[1]))
Call_Hash_pause ==
    Ready /\ \E h \in Hashes :
        Invoke("Hash_pause", [self |-> h], Hash_pause(h, api[1]))
Call_Torrent_pause ==
    Ready /\ \E t \in Torrents :
        Invoke("Torrent_pause", [self |-> t], Torrent_pause(t, api[1]))
Call_VecHash_pause ==
    Ready /\ \E hs \in HashLists :
        Invoke("VecHash_pause", [self |-> hs], VecHash_pause(hs, api[1]))
Call_Hash_add_tag ==
    Ready /\ \E h \in Hashes, tags \in TagLists :
        Invoke("Hash_add_tag", [self |-> h, tags |-> tags], Hash_add_tag(h, api[1], tags))
Call_Torrent_add_tag ==
    Ready /\ \E t \in Torrents, tags \in TagLists :
        Invoke("Torrent_add_tag", [self |-> t, tags |-> tags],
               Torrent_add_tag(t, api[1], tags))
Call_Hash_recheck ==
    Ready /\ \E h \in Hashes :
        Invoke("Hash_recheck", [self |-> h], Hash_recheck(h, api[1]))
Call_Torrent_recheck ==
    Ready /\ \E t \in Torrents :
        Invoke("Torrent_recheck", [self |-> t], Torrent_recheck(t, api[1]))
Call_TorrentRequest_send ==
    Ready /\ \E r \in TorrentRequests :
        Invoke("TorrentRequest_send", [self |-> r], TorrentRequest_send(r, api[1]))
Call_TorrentDownload_download ==
    Ready /\ \E d \in TorrentDownloads :
        Invoke("TorrentDownload_download", [self |-> d], TorrentDownload_download(d, api[1]))

----------------------------------------------------------------------------

Init ==
    /\ api = <<>>
    /\ call = Idle
    /\ calls = <<>>

Next ==
    \/ New \/ NewReturns \/ Respond \/ TransportError \/ Forget \/ Drop
    \/ Call_application_version \/ Call_api_version \/ Call_build_info
    \/ Call_shutdown \/ Call_default_save_path \/ Call_get_log
    \/ Call_get_global_transfer_info \/ Call_get_alternate_speed_limits_state
    \/ Call_toggle_alternative_speed_limits \/ Call_get_torrent_list
    \/ Call_add_new_torrent \/ Call_get_all_categories \/ Call_add_category
    \/ Call_bottom_prio \/ Call_top_prio
    \/ Call_Torrent_set_category
    \/ Call_Hash_properties \/ Call_Hash_trackers \/ Call_Hash_contents
    \/ Call_Torrent_properties \/ Call_Torrent_trackers \/ Call_Torrent_contents
    \/ Call_Api_properties \/ Call_Api_trackers \/ Call_Api_contents
    \/ Call_Hash_resume \/ Call_Torrent_resume \/ Call_VecHash_resume
    \/ Call_Hash_pause \/ Call_Torrent_pause \/ Call_VecHash_pause
    \/ Call_Hash_add_tag \/ Call_Torrent_add_tag
    \/ Call_Hash_recheck \/ Call_Torrent_recheck
    \/ Call_TorrentRequest_send \/ Call_TorrentDownload_download

Spec == Init /\ [][Next]_vars

----------------------------------------------------------------------------
(* Several handlers in flight on one session: each `async fn` takes `&self`, *)
(* so the caller may poll any number of them together (join!, spawn); each   *)
(* future owns its request, its response and its result.                     *)

MaxCalls == 2

ConcStatuses == {200, 404}
ConcBodies == {<<"1">>, <<"[", "]">>}
ConcResponses == [status : ConcStatuses, setCookie : {<<>>}, body : ConcBodies]

\* the sessions Api::new can return
Sessions ==
    {r.val : r \in {x \in {NewResult(u, resp) : u \in BaseUrls, resp \in LoginResponses} :
                      x.ok}}

\* future i builds its request from the shared `&Api` and awaits the answer
Start(cs, i, op, args, h) == [cs EXCEPT ![i] = Awaiting(op, args, h.req, h.then)]

\* an answer that lands in one buffer every awaiting future reads from
Deliver_Shared(cs, i, resp) ==
    [j \in DOMAIN cs |->
        IF cs[j].pc = "awaiting" THEN Returned(cs[j], <<resp>>, Continue(cs[j], resp))
        ELSE cs[j]]

\* future i gets the answer to its own request and runs the rest of its handler
Deliver(cs, i, resp) ==
    [cs EXCEPT ![i] = Returned(cs[i], <<resp>>, Continue(cs[i], resp))]

Free(i) == calls[i].pc = "idle"

Conc_application_version(i) ==
    /\ Free(i)
    /\ calls' = Start(calls, i, "application_version", NoArgs, application_version(api[1]))
    /\ UNCHANGED <<api, call>>

Conc_get_alternate_speed_limits_state(i) ==
    /\ Free(i)
    /\ calls' = Start(calls, i, "get_alternate_speed_limits_state", NoArgs,
                      get_alternate_speed_limits_state(api[1]))
    /\ UNCHANGED <<api, call>>

Conc_get_torrent_list(i) ==
    /\ Free(i)
    /\ calls' = Start(calls, i, "get_torrent_list", NoArgs, get_torrent_list(api[1]))
    /\ UNCHANGED <<api, call>>

Conc_Hash_properties(i) ==
    /\ Free(i)
    /\ \E h \in Hashes :
         calls' = Start(calls, i, "Hash_properties", [self |-> h], Hash_properties(h, api[1]))
    /\ UNCHANGED <<api, call>>

Conc_Hash_pause(i) ==
    /\ Free(i)
    /\ \E h \in Hashes :
         calls' = Start(calls, i, "Hash_pause", [self |-> h], Hash_pause(h, api[1]))
    /\ UNCHANGED <<api, call>>

ConcRespond(i) ==
    /\ calls[i].pc = "awaiting"
    /\ \E resp \in ConcResponses : calls' = Deliver(calls, i, resp)
    /\ UNCHANGED <<api, call>>

ConcTransportError(i) ==
    /\ calls[i].pc = "awaiting"
    /\ calls' = [calls EXCEPT ![i] = Returned(calls[i], <<>>, ErrReqwest(<<>>))]
    /\ UNCHANGED <<api, call>>

ConcForget(i) ==
    /\ calls[i].pc = "returned"
    /\ calls' = [calls EXCEPT ![i] = Idle]
    /\ UNCHANGED <<api, call>>

InitConc ==
    /\ api \in {<<a>> : a \in Sessions}
    /\ call = Idle
    /\ calls = [i \in 1..MaxCalls |-> Idle]

NextConc ==
    \E i \in 1..MaxCalls :
        \/ Conc_application_version(i)
        \/ Conc_get_alternate_speed_limits_state(i)
        \/ Conc_get_torrent_list(i)
        \/ Conc_Hash_properties(i)
        \/ Conc_Hash_pause(i)
        \/ ConcRespond(i)
        \/ ConcTransportError(i)
        \/ ConcForget(i)

SpecConc == InitConc /\ [][NextConc]_vars

----------------------------------------------------------------------------
(* Vocabulary of the properties, independent of the definitions above *)

Occurs(s, ch) == \E i \in 1..Len(s) : s[i] = ch
IndexOf(s, ch) == CHOOSE i \in 1..Len(s) : s[i] = ch /\ \A j \in 1..(i - 1) : s[j] # ch
Before(s, ch) == IF Occurs(s, ch) THEN SubSeq(s, 1, IndexOf(s, ch) - 1) ELSE s
After(s, ch) == SubSeq(s, IndexOf(s, ch) + 1, Len(s))

RECURSIVE SplitOn(_, _)
SplitOn(s, ch) ==
    IF ~Occurs(s, ch) THEN <<s>>
    ELSE <<Before(s, ch)>> \o SplitOn(After(s, ch), ch)

\* v is the list `items` written with `ch` between neighbours and nowhere else
IsDelimited(v, items, ch) ==
    IF items = <<>> THEN v = <<>>
    ELSE /\ SplitOn(v, ch) = items
         /\ v # <<>>
         /\ v[1] # ch
         /\ v[Len(v)] # ch

\* the values a form holds under a key
FormValues(req, key) ==
    IF req.form = <<>> THEN {} ELSE {kv[2] : kv \in {p \in req.form[1] : p[1] = key}}

InFlight == call.pc \in {"awaiting", "returned"}
Answered == call.pc = "returned" /\ call.resp # <<>>

\* a Set-Cookie value whose cookie is named SID / is a readable SID=value cookie
NamesSessionCookie(v) == Occurs(v, "=") /\ Before(v, "=") = SID
WellFormedSessionCookie(v) ==
    /\ NamesSessionCookie(v)
    /\ \A i \in 1..Len(v) : v[i] \notin NonVisibleAscii
    /\ Len(Before(v, ";")) > Len(SID) + 1
SessionCookieIndexes(resp) ==
    {i \in 1..Len(resp.setCookie) : WellFormedSessionCookie(resp.setCookie[i])}
FirstSessionCookie(resp) ==
    resp.setCookie[CHOOSE i \in SessionCookieIndexes(resp) :
                      \A j \in SessionCookieIndexes(resp) : i <= j]

----------------------------------------------------------------------------
(* C1: whenever the login response holds a well-formed session cookie,       *)
(* Api::new succeeds and the captured cookie is that cookie's name=value     *)
(* text up to its first ';'.                                                 *)
C1_TokenFromSessionCookie ==
    (Answered /\ call.op = "new" /\ SessionCookieIndexes(call.resp[1]) # {})
      => /\ call.result.ok
         /\ call.result.val.cookie = Before(FirstSessionCookie(call.resp[1]), ";")
         /\ ~Occurs(call.result.val.cookie, ";")

(* C2: whenever no Set-Cookie header of the login response names the session *)
(* cookie, Api::new fails with MissingCookie and no session exists.          *)
C2_MissingCookie ==
    (Answered /\ call.op = "new"
       /\ \A i \in 1..Len(call.resp[1].setCookie) :
            ~NamesSessionCookie(call.resp[1].setCookie[i]))
      => /\ ~call.result.ok
         /\ call.result.err = "MissingCookie"
         /\ api = <<>>

(* C3: every request a public operation sends on a session carries the       *)
(* session's cookie and a Referer equal to the base url without path, query  *)
(* and fragment.                                                             *)
C3_EveryRequestAuthenticated ==
    (InFlight /\ call.op # "new")
      => \A i \in 1..Len(call.sent) :
           /\ <<"cookie", api[1].cookie>> \in call.sent[i].headers
           /\ <<"referer", <<api[1].url.origin, "/">>>> \in call.sent[i].headers

\* the operations that take a sequence of identifiers, and the sequence given
BatchOps == {"VecHash_pause", "VecHash_resume", "top_prio", "bottom_prio",
             "TorrentRequest_send"}
BatchTarget(c) ==
    CASE c.op \in {"VecHash_pause", "VecHash_resume"} -> c.args.self
      [] c.op \in {"top_prio", "bottom_prio"} -> c.args.hashes
      [] c.op = "TorrentRequest_send" -> c.args.self.hashes

(* C4: a non-empty sequence of identifiers h1..hn given as a batch target    *)
(* reaches the form as exactly h1|h2|...|hn: every identifier, in the order  *)
(* given, duplicates kept, '|' between neighbours only.                      *)
C4_PipeJoinedInOrder ==
    (InFlight /\ call.op \in BatchOps /\ BatchTarget(call) # <<>>)
      => /\ Cardinality(FormValues(call.sent[1], "hashes")) = 1
         /\ \A v \in FormValues(call.sent[1], "hashes") :
              IsDelimited(v, BatchTarget(call), "|")

C4_Witness ==
    /\ call.pc = "awaiting"
    /\ call.op = "top_prio"
    /\ call.args.hashes = <<bbb, aaa>>
    /\ FormValues(call.sent[1], "hashes") = {<<"b", "b", "b", "|", "a", "a", "a">>}

\* a second case of C4: the same identifier twice
C4_WitnessDuplicates ==
    /\ call.pc = "awaiting"
    /\ call.op = "TorrentRequest_send"
    /\ call.args.self.hashes = <<aaa, aaa>>

\* the mutating torrent operations, and the identifiers of the target given
MutatingOps ==
    {"Hash_pause", "Torrent_pause", "VecHash_pause",
     "Hash_resume", "Torrent_resume", "VecHash_resume",
     "Hash_recheck", "Torrent_recheck", "Torrent_set_category",
     "Hash_add_tag", "Torrent_add_tag", "top_prio", "bottom_prio"}
TargetIds(c) ==
    CASE c.op \in {"VecHash_pause", "VecHash_resume"} -> c.args.self
      [] c.op \in {"top_prio", "bottom_prio"} -> c.args.hashes
      [] c.op \in {"Hash_pause", "Hash_resume", "Hash_recheck", "Hash_add_tag"}
           -> <<c.args.self>>
      [] OTHER -> <<c.args.self.hash>>

(* C5: every mutating torrent operation, on every target shape, sends a form *)
(* holding the key `hashes` with the target's joined identifier list; a      *)
(* single Hash sends the form a one-element Vec<Hash> of it sends.           *)
C5_HashesKeyForEveryShape ==
    (InFlight /\ call.op \in MutatingOps)
      => /\ Cardinality(FormValues(call.sent[1], "hashes")) = 1
         /\ \A v \in FormValues(call.sent[1], "hashes") :
              IsDelimited(v, TargetIds(call), "|")
         /\ call.op = "Hash_pause"
              => call.sent[1].form = VecHash_pause(<<call.args.self>>, api[1]).req.form
         /\ call.op = "Hash_resume"
              => call.sent[1].form = VecHash_resume(<<call.args.self>>, api[1]).req.form

(* C6: pause on the identifiers "aaa", "bbb" (in that order) sends one       *)
(* request, to /api/v2/torrents/pause, with the form hashes=aaa|bbb; a 200   *)
(* answer gives success, a 404 answer an HTTP-status error carrying 404.     *)
C6_PauseTwoTargets ==
    (InFlight /\ call.op = "VecHash_pause" /\ call.args.self = <<aaa, bbb>>)
      => /\ Len(call.sent) = 1
         /\ call.sent[1].url.path = "/api/v2/torrents/pause"
         /\ call.sent[1].form = <<{<<"hashes", <<"a", "a", "a", "|", "b", "b", "b">>>>}>>
         /\ (Answered /\ call.resp[1].status = 200) => call.result = [ok |-> TRUE, val |-> "()"]
         /\ (Answered /\ call.resp[1].status = 404)
              => /\ ~call.result.ok
                 /\ call.result.err = "Reqwest"
                 /\ call.result.status = <<404>>

C6_Witness ==
    /\ Answered
    /\ call.op = "VecHash_pause"
    /\ call.args.self = <<aaa, bbb>>
    /\ call.resp[1].status = 404
    /\ ~call.result.ok

\* the operations that only act on the service
SideEffectOps ==
    {"Hash_pause", "Torrent_pause", "VecHash_pause",
     "Hash_resume", "Torrent_resume", "VecHash_resume",
     "Hash_recheck", "Torrent_recheck", "shutdown",
     "toggle_alternative_speed_limits", "add_new_torrent", "TorrentDownload_download",
     "add_category", "Torrent_set_category", "Hash_add_tag", "Torrent_add_tag",
     "top_prio", "bottom_prio"}

(* C7: a side-effecting operation succeeds exactly when the answer's status  *)
(* is 2xx, and for any other status returns an HTTP-status error carrying    *)
(* that status.                                                              *)
C7_SuccessIffStatus2xx ==
    (Answered /\ call.op \in SideEffectOps)
      => LET status == call.resp[1].status IN
         /\ call.result.ok <=> (status >= 200 /\ status <= 299)
         /\ ~(status >= 200 /\ status <= 299)
              => (call.result.err = "Reqwest" /\ call.result.status = <<status>>)

\* the identifier add_tag is invoked on
AddTagTarget(c) == IF c.op = "Hash_add_tag" THEN c.args.self ELSE c.args.self.hash

(* C8: add_tag writes its tags t1..tn to the form as t1,t2,...,tn: every     *)
(* tag, in the order given, duplicates kept, ',' between neighbours and no   *)
(* '|'; the `hashes` field holds the target's identifier whatever the tags.  *)
C8_TagsCommaJoined ==
    (InFlight /\ call.op \in {"Hash_add_tag", "Torrent_add_tag"})
      => /\ Cardinality(FormValues(call.sent[1], "tags")) = 1
         /\ \A v \in FormValues(call.sent[1], "tags") :
              /\ IsDelimited(v, call.args.tags, ",")
              /\ ~Occurs(v, "|")
         /\ FormValues(call.sent[1], "hashes") = {AddTagTarget(call)}

C8_Witness ==
    /\ call.pc = "awaiting"
    /\ call.op = "Torrent_add_tag"
    /\ call.args.tags = <<<<"h", "d">>, <<"x">>>>
    /\ FormValues(call.sent[1], "tags") = {<<"h", "d", ",", "x">>}

(* C9: get_alternate_speed_limits_state gives Enabled for the body "1",      *)
(* Disabled for the body "0" and the BadResponse error for any other body.   *)
C9_AlternateLimitsDecode ==
    (Answered /\ call.op = "get_alternate_speed_limits_state")
      => LET body == call.resp[1].body IN
         /\ body = <<"1">> => call.result = [ok |-> TRUE, val |-> "Enabled"]
         /\ body = <<"0">> => call.result = [ok |-> TRUE, val |-> "Disabled"]
         /\ body \notin {<<"1">>, <<"0">>}
              => call.result = [ok |-> FALSE, err |-> "BadResponse"]

C9_Witness ==
    /\ Answered
    /\ call.op = "get_alternate_speed_limits_state"
    /\ call.resp[1].body = <<"1", "\n">>
    /\ call.result = [ok |-> FALSE, err |-> "BadResponse"]

(* C10: an invocation sends at most one request; once it has returned, with  *)
(* success or with any error, it sends nothing more, and an operation on a   *)
(* session never sends a login.                                              *)
C10_NoRetry ==
    /\ [](InFlight => /\ Len(call.sent) <= 1
                      /\ call.op # "new"
                           => \A i \in 1..Len(call.sent) :
                                call.sent[i].url.path # "/api/v2/auth/login")
    /\ [][call.pc = "returned" => (call'.pc = "idle" /\ api' = api)]_vars

C10_Witness ==
    /\ call.pc = "returned"
    /\ call.op = "Hash_resume"
    /\ ~call.result.ok
    /\ Len(call.sent) = 1

(* C11: a session never changes once Api::new returned it: whatever the      *)
(* operation and its outcome, the base url and the cookie stay those Api::new *)
(* returned, and endpoint(path) gives the request a url with the path set    *)
(* while the stored base url keeps its own path.                             *)
C11_SessionImmutable ==
    /\ [][(api # <<>> /\ api' # <<>>) => api' = api]_vars
    /\ [][(api = <<>> /\ api' # <<>>)
            => (call'.op = "new" /\ call'.result.ok /\ api' = <<call'.result.val>>)]_vars
    /\ []((InFlight /\ call.op # "new")
            => /\ api # <<>>
               /\ api[1].url.path = "/"
               /\ call.sent[1].url.path # api[1].url.path
               /\ call.sent[1].url = [api[1].url EXCEPT !.path = call.sent[1].url.path])

C11_Witness ==
    /\ call.pc = "returned"
    /\ call.op = "Hash_properties"
    /\ ~call.result.ok
    /\ api # <<>>
    /\ api[1].url.path = "/"
    /\ call.sent[1].url.path = "/api/v2/torrents/properties"

\* the keys of a request's form, and the keys a TorrentRequest's set fields name
FormKeys(req) == IF req.form = <<>> THEN {} ELSE {kv[1] : kv \in req.form[1]}
PresentKeys(r) ==
    (IF r.filter # <<>> THEN {"filter"} ELSE {})
      \cup (IF r.category # <<>> THEN {"category"} ELSE {})
      \cup (IF r.tag # <<>> THEN {"tag"} ELSE {})
      \cup (IF r.sort # <<>> THEN {"sort"} ELSE {})
      \cup (IF r.reverse # <<>> THEN {"reverse"} ELSE {})
      \cup (IF r.limit # <<>> THEN {"limit"} ELSE {})
      \cup (IF r.offset # <<>> THEN {"offset"} ELSE {})
      \cup (IF Len(r.hashes) > 0 THEN {"hashes"} ELSE {})
Literal(b) == IF b THEN <<"t", "r", "u", "e">> ELSE <<"f", "a", "l", "s", "e">>

(* C12: the form of TorrentRequest::send holds one pair for each field that  *)
(* is set and no pair for a field that is not (an empty hashes list          *)
(* included); the form of LogRequest::to_form_data always holds the five     *)
(* keys normal, info, warning, critical, last_known_id, once each, the flags *)
(* written "true" or "false".                                                *)
C12_QueryBuilderKeys ==
    /\ (InFlight /\ call.op = "TorrentRequest_send")
         => /\ call.sent[1].form # <<>>
            /\ FormKeys(call.sent[1]) = PresentKeys(call.args.self)
            /\ Cardinality(call.sent[1].form[1]) = Cardinality(PresentKeys(call.args.self))
    /\ (InFlight /\ call.op = "get_log")
         => /\ call.sent[1].form # <<>>
            /\ FormKeys(call.sent[1])
                 = {"normal", "info", "warning", "critical", "last_known_id"}
            /\ Cardinality(call.sent[1].form[1]) = 5
            /\ FormValues(call.sent[1], "normal") = {Literal(call.args.log_request.normal)}
            /\ FormValues(call.sent[1], "info") = {Literal(call.args.log_request.info)}
            /\ FormValues(call.sent[1], "warning") = {Literal(call.args.log_request.warning)}
            /\ FormValues(call.sent[1], "critical") = {Literal(call.args.log_request.critical)}

\* a category set to the empty string gives a pair, the unset fields give none
C12_Witness ==
    /\ call.pc = "awaiting"
    /\ call.op = "TorrentRequest_send"
    /\ call.args.self.category = << <<>> >>
    /\ call.args.self.hashes = <<>>
    /\ call.sent[1].form = <<{<<"category", <<>>>>}>>

\* a second case of C12: a log request with no flag set
C12_WitnessLog ==
    /\ call.pc = "awaiting"
    /\ call.op = "get_log"
    /\ call.args.log_request.normal = FALSE
    /\ call.args.log_request.critical = FALSE
    /\ Cardinality(call.sent[1].form[1]) = 5

(* C13: every request sent, by the login and by every operation, is a POST   *)
(* that carries a form-encoded body; no request uses another method.         *)
C13_EveryRequestFormPost ==
    InFlight =>
        \A i \in 1..Len(call.sent) :
            /\ call.sent[i].method = "POST"
            /\ call.sent[i].form # <<>>
            /\ <<"content-type", <<"application/x-www-form-urlencoded">>>>
                 \in call.sent[i].headers

\* the single-identifier reads, by what is read and by the shape of the target
ReadOps(kind) == {"Hash_" \o kind, "Torrent_" \o kind, "Api_" \o kind}
ReadKinds == {"properties", "trackers", "contents"}
ReadKind(c) == CHOOSE kind \in ReadKinds : c.op \in ReadOps(kind)
ReadTarget(c) ==
    IF c.op \in {"Hash_" \o kind : kind \in ReadKinds} THEN c.args.self
    ELSE IF c.op \in {"Torrent_" \o kind : kind \in ReadKinds} THEN c.args.self.hash
    ELSE c.args.torrent.hash
ReadPath(kind) ==
    CASE kind = "properties" -> "/api/v2/torrents/properties"
      [] kind = "trackers" -> "/api/v2/torrents/trackers"
      [] kind = "contents" -> "/api/v2/torrents/files"
\* the one request and the one result a read of `kind` on identifier `id` has,
\* whatever the shape it was invoked on
ReadRequest(kind, id) ==
    [method |-> "POST",
     url |-> [api[1].url EXCEPT !.path = ReadPath(kind)],
     headers |-> {<<"cookie", api[1].cookie>>,
                  <<"referer", UrlAsStr(api[1].url)>>,
                  <<"content-type", <<"application/x-www-form-urlencoded">>>>},
     form |-> <<{<<"hash", id>>}>>]
ReadResult(kind, resp) ==
    IF resp = <<>> THEN ErrReqwest(<<>>)
    ELSE IF kind = "properties" THEN FromSliceStruct(resp[1].body)
    ELSE FromSliceVec(resp[1].body)

(* C14: properties, trackers and contents each send exactly one request,     *)
(* whose form is the single pair hash=<identifier>; the request and the      *)
(* result are the same for a Hash, for a Torrent record with that hash and   *)
(* for the Api given that record: they depend on the identifier, the session *)
(* and the response only.                                                    *)
C14_SingleIdentifierReads ==
    (InFlight /\ \E kind \in ReadKinds : call.op \in ReadOps(kind))
        => /\ call.sent = <<ReadRequest(ReadKind(call), ReadTarget(call))>>
           /\ FormValues(call.sent[1], "hash") = {ReadTarget(call)}
           /\ FormValues(call.sent[1], "hashes") = {}
           /\ call.pc = "returned"
                => call.result = ReadResult(ReadKind(call), call.resp)

\* the Api, given the record of bbb, has read its one tracker
C14_Witness ==
    /\ call.pc = "returned"
    /\ call.op = "Api_trackers"
    /\ call.args.torrent.hash = bbb
    /\ call.sent[1].form = <<{<<"hash", bbb>>}>>
    /\ call.result = Ok(<<"{..}">>)

\* the same read of the contents, invoked on the record itself
C14_WitnessTorrent ==
    /\ call.pc = "returned"
    /\ call.op = "Torrent_contents"
    /\ call.args.self.hash = bbb
    /\ call.result = Ok(<<"{..}">>)

\* the scenario's login answer, and the two ways of listing torrents
SetCookie_abc123 == sid_abc123 \o attr_path
ListOps == {"get_torrent_list", "TorrentRequest_send"}

(* C15: a login answered with `Set-Cookie: SID=abc123; Path=/` gives a       *)
(* session whose cookie is SID=abc123; a list-torrents call on that session  *)
(* (get_torrent_list or TorrentRequest::send) sends `cookie: SID=abc123`,    *)
(* and answered with the body `[]` it returns Ok with an empty collection.   *)
C15_ListTorrentsScenario ==
    /\ (Answered /\ call.op = "new"
          /\ FirstSetCookie(call.resp[1]) = <<SetCookie_abc123>>)
         => /\ call.result.ok
            /\ call.result.val.cookie = sid_abc123
            /\ api = <<call.result.val>>
    /\ (InFlight /\ call.op \in ListOps /\ api[1].cookie = sid_abc123)
         => /\ Len(call.sent) = 1
            /\ {h[2] : h \in {g \in call.sent[1].headers : g[1] = "cookie"}} = {sid_abc123}
            /\ call.sent[1].url.path = "/api/v2/torrents/info"
            /\ (Answered /\ call.resp[1].body = <<"[", "]">>)
                 => call.result = [ok |-> TRUE, val |-> <<>>]

\* the login of the scenario has been answered
C15_WitnessLogin ==
    /\ Answered
    /\ call.op = "new"
    /\ call.resp[1].setCookie = <<SetCookie_abc123>>
    /\ api # <<>>

\* the list call of the scenario has been answered with `[]`
C15_Witness ==
    /\ Answered
    /\ call.op = "get_torrent_list"
    /\ api[1].cookie = sid_abc123
    /\ call.resp[1].status = 200
    /\ call.resp[1].body = <<"[", "]">>
    /\ call.result.ok

\* the same through the request builder
C15_WitnessSend ==
    /\ Answered
    /\ call.op = "TorrentRequest_send"
    /\ api[1].cookie = sid_abc123
    /\ call.resp[1].body = <<"[", "]">>
    /\ call.result.ok

\* what the handler of call c gives when it runs alone on the session
Alone(c) ==
    CASE c.op = "application_version" -> application_version(api[1])
      [] c.op = "get_alternate_speed_limits_state" -> get_alternate_speed_limits_state(api[1])
      [] c.op = "get_torrent_list" -> get_torrent_list(api[1])
      [] c.op = "Hash_properties" -> Hash_properties(c.args.self, api[1])
      [] c.op = "Hash_pause" -> Hash_pause(c.args.self, api[1])
AloneResult(c) ==
    IF c.resp = <<>> THEN ErrReqwest(<<>>)
    ELSE Continue([then |-> Alone(c).then, args |-> c.args], c.resp[1])

(* C16: calls running together on one session do not interfere: a step of   *)
(* one call changes neither the session nor any other call, and in every     *)
(* interleaving each call's one request and its result are those its handler *)
(* gives when run alone, from the session, its own arguments and its own     *)
(* response.                                                                 *)
C16_NoInterference ==
    /\ [][api' = api]_vars
    /\ [][\A i \in 1..MaxCalls : \A j \in 1..MaxCalls :
            (i # j /\ calls'[i] # calls[i]) => calls'[j] = calls[j]]_vars
    /\ [](\A i \in 1..MaxCalls :
            calls[i].pc \in {"awaiting", "returned"}
                => /\ calls[i].sent = <<Alone(calls[i]).req>>
                   /\ calls[i].pc = "returned" => calls[i].result = AloneResult(calls[i]))

\* two calls in flight together, answered differently: the pause refused with
\* 404 while the list, invoked on the other future, was decoded
C16_Witness ==
    /\ calls[1].pc = "returned"
    /\ calls[1].op = "Hash_pause"
    /\ calls[1].result = ErrReqwest(<<404>>)
    /\ calls[2].pc = "returned"
    /\ calls[2].op = "get_torrent_list"
    /\ calls[2].resp # <<>>
    /\ calls[2].resp[1].status = 200
    /\ calls[2].result = Ok(<<>>)

LoginPath == "/api/v2/auth/login"
\* Api::new has just returned, in this step
NewJustReturned == call.pc = "awaiting" /\ call.op = "new" /\ call'.pc = "returned"

(* C17: Api::new sends exactly one request, to /api/v2/auth/login; a session *)
(* comes to exist only in the step where that login returns Ok, the answer   *)
(* carrying a Set-Cookie value; a construction that fails (transport error,  *)
(* MissingHeaders, MissingCookie, header-encoding error) leaves the caller   *)
(* without a session; so a request to any other path is only ever sent by a  *)
(* caller that holds a session from a successful login.                      *)
C17_LoginPrecedesEverything ==
    /\ []((InFlight /\ call.op = "new")
            => /\ Len(call.sent) = 1
               /\ call.sent[1].url.path = LoginPath
               /\ call.sent[1].method = "POST")
    /\ [][(api = <<>> /\ api' # <<>>)
            => /\ NewJustReturned
               /\ call'.result.ok
               /\ call'.resp # <<>>
               /\ call'.resp[1].setCookie # <<>>]_vars
    /\ [][(NewJustReturned /\ ~call'.result.ok) => (api = <<>> /\ api' = <<>>)]_vars
    /\ []((InFlight /\ \E i \in 1..Len(call.sent) : call.sent[i].url.path # LoginPath)
            => api # <<>>)
    /\ []((InFlight /\ api = <<>>) => call.op = "new")

\* a construction that failed on a cookie without ';' left no session
C17_Witness ==
    /\ call.pc = "returned"
    /\ call.op = "new"
    /\ call.resp # <<>>
    /\ call.result = Err("MissingCookie")
    /\ api = <<>>

\* the other failures of a construction, and an operation sent after a login
C17_WitnessTransport ==
    call.pc = "returned" /\ call.op = "new" /\ call.resp = <<>> /\ api = <<>>
C17_WitnessMissingHeaders ==
    call.pc = "returned" /\ call.op = "new" /\ call.result = Err("MissingHeaders") /\ api = <<>>
C17_WitnessToStr ==
    call.pc = "returned" /\ call.op = "new" /\ call.result = Err("ToStrError") /\ api = <<>>
C17_WitnessAfterLogin ==
    /\ call.pc = "awaiting"
    /\ call.op = "application_version"
    /\ call.sent[1].url.path = "/api/v2/app/version"
    /\ api # <<>>

====
